---- MODULE Spec2Model ----
(***************************************************************************)
(* Model of the question_rag package: the tagged-block corpus codec        *)
(* (ingestion.build_corpus_text / retrieval_tools._parse_block), the       *)
(* normaliser, the ingestion orchestrator and the retrieval refinement     *)
(* layer.                                                                  *)
(*                                                                         *)
(* A Python str is a sequence of one-character strings, so that the string *)
(* methods the code uses (splitlines, startswith, rstrip, strip, split,    *)
(* join, lower) are computed character by character.  The only line break  *)
(* of the alphabet is "\n".                                                *)
(***************************************************************************)
EXTENDS Integers, Sequences, FiniteSets, TLC

VARIABLES
    \* corpus codec
    doc,        \* the Document handed to build_corpus_text (or NoDoc)
    raw,        \* the text handed to _parse_block
    parsed,     \* what _parse_block returned (or NoParse)
    phase,      \* position of the codec / normaliser scenario
    damage,     \* lines of raw lost or mangled on the way back from the backend
    \* normaliser
    item,       \* the raw dataset handed to normalize_metadata
    normalized, \* what normalize_metadata returned
    \* retrieval
    ranking,    \* the backend's ranked fragments for the next query (pool keys)
    queries,    \* the backend queries issued so far: [text, limit]
    call,       \* the retrieval call that was made (or NoCall)
    result,     \* what that call returned
    \* ingestion
    inputFile,  \* content of input/metadata_input.json
    edits,      \* times the input file was rewritten
    pc,         \* per run: the stage the run has reached
    err,        \* per run: the exception that ended it
    loaded,     \* per run: the local variable raw of run_ingestion
    entries,    \* per run: the local variable entries
    corpusText, \* per run: the local variable corpus_text
    log,        \* per run: the stage effects that happened, in order
    normFile,   \* content of input/normalized_metadata.json
    corpusFile, \* content of the local CORPUS_FILE
    lastWriter, \* the run that wrote corpusFile last
    bucket,     \* content of the blob CORPUS_FILE in the bucket
    uploaded,   \* per run: what its upload put into the bucket
    imports     \* the import requests sent to the RAG corpus, in order

codecVars == <<doc, raw, parsed, phase, damage>>
normVars  == <<item, normalized>>
retrVars  == <<ranking, queries, call, result>>
ingVars   == <<inputFile, edits, pc, err, loaded, entries, corpusText, log, normFile,
               corpusFile, lastWriter, bucket, uploaded, imports>>
vars      == <<codecVars, normVars, retrVars, ingVars>>

----------------------------------------------------------------------------
(* Python str methods *)

NL == "\n"
Whitespace == {" ", "\t", "\n", "\r"}

\* str.startswith(prefix)
StartsWith(s, prefix) ==
    /\ Len(s) >= Len(prefix)
    /\ SubSeq(s, 1, Len(prefix)) = prefix

\* str.lstrip()
RECURSIVE LStrip(_)
LStrip(s) ==
    IF s # <<>> /\ Head(s) \in Whitespace THEN LStrip(Tail(s)) ELSE s

\* str.rstrip()
RECURSIVE RStrip(_)
RStrip(s) ==
    IF s # <<>> /\ s[Len(s)] \in Whitespace
    THEN RStrip(SubSeq(s, 1, Len(s) - 1))
    ELSE s

\* str.strip()
Strip(s) == RStrip(LStrip(s))

\* str.rstrip(chars) for a one-character chars
RECURSIVE RStripChar(_, _)
RStripChar(s, c) ==
    IF s # <<>> /\ s[Len(s)] = c
    THEN RStripChar(SubSeq(s, 1, Len(s) - 1), c)
    ELSE s

\* str.lower() on the alphabet in use
LowerChar(c) ==
    CASE c = "A" -> "a" [] c = "B" -> "b" [] c = "C" -> "c" [] c = "D" -> "d"
      [] c = "E" -> "e" [] c = "I" -> "i" [] c = "K" -> "k" [] c = "M" -> "m"
      [] c = "N" -> "n" [] c = "O" -> "o" [] c = "P" -> "p" [] c = "Q" -> "q"
      [] c = "S" -> "s" [] c = "T" -> "t" [] c = "U" -> "u" [] c = "W" -> "w"
      [] c = "Z" -> "z" [] OTHER -> c

Lower(s) == [i \in 1..Len(s) |-> LowerChar(s[i])]

\* str.splitlines(): a final line break opens no further line
RECURSIVE SplitLinesAcc(_, _, _)
SplitLinesAcc(s, cur, acc) ==
    IF s = <<>> THEN (IF cur = <<>> THEN acc ELSE Append(acc, cur))
    ELSE IF Head(s) = NL THEN SplitLinesAcc(Tail(s), <<>>, Append(acc, cur))
    ELSE SplitLinesAcc(Tail(s), Append(cur, Head(s)), acc)

SplitLines(s) == SplitLinesAcc(s, <<>>, <<>>)

\* str.split(sep) for a one-character sep: always at least one piece
RECURSIVE SplitAcc(_, _, _, _)
SplitAcc(s, sep, cur, acc) ==
    IF s = <<>> THEN Append(acc, cur)
    ELSE IF Head(s) = sep THEN SplitAcc(Tail(s), sep, <<>>, Append(acc, cur))
    ELSE SplitAcc(Tail(s), sep, Append(cur, Head(s)), acc)

Split(s, sep) == SplitAcc(s, sep, <<>>, <<>>)

\* sep.join(parts)
RECURSIVE Join(_, _)
Join(parts, sep) ==
    IF parts = <<>> THEN <<>>
    ELSE IF Len(parts) = 1 THEN parts[1]
    ELSE parts[1] \o sep \o Join(Tail(parts), sep)

\* list slice xs[a:b] with 0-based non-negative a, b
Slice(xs, a, b) ==
    LET hi == IF b < Len(xs) THEN b ELSE Len(xs)
    IN  IF a >= hi THEN <<>> ELSE SubSeq(xs, a + 1, hi)

\* [x for x in xs if keep(x)]
FilterSeq(xs, Keep(_)) == SelectSeq(xs, Keep)

\* [f(x) for x in xs]
MapSeq(xs, F(_)) == [i \in 1..Len(xs) |-> F(xs[i])]

----------------------------------------------------------------------------
(* The tagged-block format *)

L_ID           == <<"I", "D">>
L_MAIN_CONCEPT == <<"M", "A", "I", "N", "_", "C", "O", "N", "C", "E", "P", "T">>
L_CONCEPTS     == <<"C", "O", "N", "C", "E", "P", "T", "S">>
UNKNOWN        == <<"U", "N", "K", "N", "O", "W", "N">>
UNKNOWN_ID     == <<"U", "N", "K", "N", "O", "W", "N", "_", "I", "D">>
SEP_LINE       == <<"-", "-", "-">>

\* f"[{label}: {value}]"
HeaderLine(label, value) == <<"[">> \o label \o <<":", " ">> \o value \o <<"]">>

IsNonEmpty(s) == s # <<>>

\* One block of build_corpus_text
RenderBlock(e) ==
    LET q_id         == Strip(e.id)
        text         == Strip(e.text)
        main_concept == Strip(e.main_concept)
        concepts_str == Join(FilterSeq(e.concepts, IsNonEmpty), <<";", " ">>)
        header_lines == << HeaderLine(L_ID, q_id),
                           HeaderLine(L_MAIN_CONCEPT, main_concept),
                           HeaderLine(L_CONCEPTS, concepts_str),
                           <<>>,
                           text,
                           <<>>,
                           SEP_LINE >>
    IN  Join(header_lines, <<NL>>)

build_corpus_text(es) ==
    Strip(Join(MapSeq(es, RenderBlock), <<NL, NL>>)) \o <<NL>>

\* Mutant of extract: any line that opens a bracket counts as the header
extract_AnyBracket(bracket_line, label, default) ==
    LET prefix == <<"[">> \o label \o <<":">>
    IN  IF StartsWith(bracket_line, <<"[">>)
        THEN Strip(RStripChar(Slice(bracket_line, Len(prefix), Len(bracket_line)), "]"))
        ELSE default

\* The inner function extract of _parse_block
extract(bracket_line, label, default) ==
    LET prefix == <<"[">> \o label \o <<":">>
    IN  IF StartsWith(bracket_line, prefix)
        THEN Strip(RStripChar(Slice(bracket_line, Len(prefix), Len(bracket_line)), "]"))
        ELSE default

\* lines.index("---"), or len(lines) on ValueError
RECURSIVE IndexOfFrom(_, _, _)
IndexOfFrom(lines, x, i) ==
    IF i > Len(lines) THEN Len(lines)
    ELSE IF lines[i] = x THEN i - 1
    ELSE IndexOfFrom(lines, x, i + 1)

sep_index(lines) == IndexOfFrom(lines, SEP_LINE, 1)

\* question_text = "\n".join(lines[4:sep_index]).strip() or raw.strip()
question_text(lines, rawText) ==
    LET body == Strip(Join(Slice(lines, 4, sep_index(lines)), <<NL>>))
    IN  IF body # <<>> THEN body ELSE Strip(rawText)

parse_concepts(concepts_raw) ==
    FilterSeq(MapSeq(Split(concepts_raw, ";"), Strip), IsNonEmpty)

_parse_block(rawText) ==
    LET lines == SplitLines(rawText)
    IN  IF Len(lines) < 1
        THEN [id |-> UNKNOWN_ID, main_concept |-> UNKNOWN, concepts |-> <<>>,
              text |-> Strip(rawText)]
        ELSE [id |-> IF Len(lines) > 0 THEN extract(lines[1], L_ID, UNKNOWN_ID)
                     ELSE UNKNOWN_ID,
              main_concept |-> IF Len(lines) > 1
                               THEN extract(lines[2], L_MAIN_CONCEPT, UNKNOWN)
                               ELSE UNKNOWN,
              concepts |-> parse_concepts(IF Len(lines) > 2
                                          THEN extract(lines[3], L_CONCEPTS, <<>>)
                                          ELSE <<>>),
              text |-> question_text(lines, rawText)]

----------------------------------------------------------------------------
(* Corpus codec scenario: a Document is rendered, then the block is decoded *)

NoDoc   == [id |-> <<>>, text |-> <<>>, main_concept |-> <<>>, concepts |-> <<>>]
NoParse == [id |-> <<>>, text |-> <<>>, main_concept |-> <<>>, concepts |-> <<>>]

\* Longest concepts list of a Document (normalize_metadata keeps matches[:3])
TOP_CONCEPTS == 3

IdValues      == { <<"q", "1">>, <<"Q", "]">>, <<" ", "q">> }
TextValues    == { <<>>, <<"t">>, <<"t", NL, NL, "u">>, <<"-", "-", "-">> }
MainValues    == { <<"A", "b">>, UNKNOWN, <<"c", "]">> }
ConceptValues == { <<"A", "b">>, <<"c">>, <<"a", ";", "b">> }

SeqsUpTo(S, n) == UNION { [1..k -> S] : k \in 0..n }

DocValues ==
    [id : IdValues, text : TextValues, main_concept : MainValues,
     concepts : SeqsUpTo(ConceptValues, TOP_CONCEPTS)]

InitCodecIdle ==
    /\ doc = NoDoc
    /\ raw = <<>>
    /\ parsed = NoParse
    /\ phase = "idle"
    /\ damage = 0

InitNormIdle ==
    /\ item = <<>>
    /\ normalized = <<>>

\* build_corpus_text([doc])
Encode ==
    /\ phase = "doc"
    /\ raw' = build_corpus_text(<<doc>>)
    /\ phase' = "encoded"
    /\ UNCHANGED <<doc, parsed, damage, normVars, retrVars, ingVars>>

\* _parse_block(raw)
Decode ==
    /\ phase = "encoded"
    /\ parsed' = _parse_block(raw)
    /\ phase' = "decoded"
    /\ UNCHANGED <<doc, raw, damage, normVars, retrVars, ingVars>>

----------------------------------------------------------------------------
(* Retrieval refinement layer *)

\* Over-fetch multiplier of search_questions_by_concept
OVERFETCH == 3
\* Batch size of get_question_by_id
ID_BATCH == 10

\* The corpus fragments the backend can return, by key; "X" is the fragment
\* under decode (the variable raw).
PoolDoc ==
    [F |-> [id |-> <<"q", "3">>, text |-> <<"u">>, main_concept |-> <<"c">>,
            concepts |-> << <<"c">> >>],
     A |-> [id |-> <<"q", "1">>, text |-> <<"t">>, main_concept |-> <<"A", "b">>,
            concepts |-> << <<"A", "b">>, <<"c">> >>],
     B |-> [id |-> <<"Q", "1">>, text |-> <<"v">>, main_concept |-> <<"c">>,
            concepts |-> << <<"c">>, <<"A", "B">> >>]]

PLAIN_TEXT == <<"t", " ", "u">>

CorpusKeys == {"F", "A", "B", "H"}

PoolText == [k \in CorpusKeys |-> IF k = "H" THEN PLAIN_TEXT ELSE RenderBlock(PoolDoc[k])]

FragmentText(k) == IF k = "X" THEN raw ELSE PoolText[k]

\* _parse_block is pure: its value on the corpus fragments is computed once
ParsedPool == [k \in CorpusKeys |-> _parse_block(PoolText[k])]

parse_fragment(t) ==
    IF \E k \in CorpusKeys : PoolText[k] = t
    THEN ParsedPool[CHOOSE k \in CorpusKeys : PoolText[k] = t]
    ELSE _parse_block(t)

\* Relevance score the backend attaches to its i-th context
ScoreAt(i) == 0 - i

\* response.contexts of rag.retrieval_query: the backend's ranking, cut to top_k
retrieval_query(text, top_k) ==
    Slice([i \in 1..Len(ranking) |->
              [text |-> FragmentText(ranking[i]), score |-> ScoreAt(i)]],
          0, top_k)

QuestionHit(p, score) ==
    [id |-> p.id, text |-> p.text, main_concept |-> p.main_concept,
     concepts |-> p.concepts, score |-> score]

HitOfContext(ctx) == QuestionHit(parse_fragment(ctx.text), ctx.score)

\* Every function below returns [sent |-> the backend queries it issued,
\* ret |-> its return value].
search_questions(query, top_k) ==
    [sent |-> << [text |-> query, limit |-> top_k] >>,
     ret  |-> MapSeq(retrieval_query(query, top_k), HitOfContext)]

Range(xs) == { xs[i] : i \in 1..Len(xs) }

concept_matches(target, h) ==
    \/ target = Lower(h.main_concept)
    \/ target \in Range(MapSeq(h.concepts, Lower))

\* Mutant of search_questions_by_concept: cuts to top_k before filtering
search_by_concept_CutFirst(concept, top_k) ==
    LET r        == search_questions(concept, top_k * OVERFETCH)
        raw_hits == Slice(r.ret, 0, top_k)
        target   == Lower(Strip(concept))
        Keep(h)  == concept_matches(target, h)
        filtered == FilterSeq(raw_hits, Keep)
    IN  [sent |-> r.sent,
         ret  |-> IF filtered # <<>> THEN filtered ELSE raw_hits]

\* Mutant of search_questions_by_concept: no fallback to the raw hits
search_by_concept_NoFallback(concept, top_k) ==
    LET r        == search_questions(concept, top_k * OVERFETCH)
        raw_hits == r.ret
        target   == Lower(Strip(concept))
        Keep(h)  == concept_matches(target, h)
        filtered == FilterSeq(raw_hits, Keep)
    IN  [sent |-> r.sent, ret |-> Slice(filtered, 0, top_k)]

search_questions_by_concept(concept, top_k) ==
    LET r        == search_questions(concept, top_k * OVERFETCH)
        raw_hits == r.ret
        target   == Lower(Strip(concept))
        Keep(h)  == concept_matches(target, h)
        filtered == FilterSeq(raw_hits, Keep)
    IN  [sent |-> r.sent,
         ret  |-> Slice(IF filtered # <<>> THEN filtered ELSE raw_hits, 0, top_k)]

NoHit == [id |-> <<>>, text |-> <<>>, main_concept |-> <<>>, concepts |-> <<>>,
          score |-> 0]
None    == [none |-> TRUE, hit |-> NoHit]
Some(h) == [none |-> FALSE, hit |-> h]

\* for h in hits: if h.id.strip().lower() == qid: return h
RECURSIVE first_id_match(_, _)
first_id_match(hits, qid) ==
    IF hits = <<>> THEN None
    ELSE IF Lower(Strip(Head(hits).id)) = qid THEN Some(Head(hits))
    ELSE first_id_match(Tail(hits), qid)

\* Mutant of get_question_by_id: the requested id is trimmed but not case-folded
get_question_by_id_NoFold(question_id) ==
    LET qid == Strip(question_id)
        r   == search_questions(question_id, ID_BATCH)
    IN  [sent |-> r.sent, ret |-> first_id_match(r.ret, qid)]

get_question_by_id(question_id) ==
    LET qid == Lower(Strip(question_id))
        r   == search_questions(question_id, ID_BATCH)
    IN  [sent |-> r.sent, ret |-> first_id_match(r.ret, qid)]

\* agent.py: the tool functions copy each hit's fields into a dict
retrieve_exam_questions(query, top_k) == search_questions(query, top_k)
retrieve_questions_by_concept(concept, top_k) ==
    search_questions_by_concept(concept, top_k)
retrieve_question_by_id(question_id) == get_question_by_id(question_id)

NoCall == [op |-> "none", arg |-> <<>>, top_k |-> 0]

InitRetrIdle ==
    /\ ranking = <<>>
    /\ queries = <<>>
    /\ call = NoCall
    /\ result = <<>>

\* Bounds of the retrieval scenario
MaxRanked == 11
MaxTopK   == 3

ConceptQueries == { <<" ", "a", "B", " ">>, <<"z", "z">>,
                    <<"u", "n", "k", "n", "o", "w", "n">> }
IdQueries      == { <<" ", "Q", "1", " ">>, <<"q", "3">>, <<"z", "z">>,
                    <<"u", "n", "k", "n", "o", "w", "n", "_", "i", "d">> }
TextQueries    == { <<"t">> }

\* The backend ranks one more fragment for the query to come.  "F" stands for
\* any other document of the corpus and may repeat; the others are single
\* documents.
BackendRank(k) ==
    /\ call.op = "none"
    /\ phase = "idle"
    /\ Len(ranking) < MaxRanked
    /\ k = "F" \/ k \notin Range(ranking)
    /\ ranking' = Append(ranking, k)
    /\ UNCHANGED <<queries, call, result, codecVars, normVars, ingVars>>

Search(query, top_k) ==
    /\ call.op = "none"
    /\ phase = "idle"
    /\ LET r == retrieve_exam_questions(query, top_k)
       IN  /\ queries' = queries \o r.sent
           /\ result' = r.ret
    /\ call' = [op |-> "search", arg |-> query, top_k |-> top_k]
    /\ UNCHANGED <<ranking, codecVars, normVars, ingVars>>

SearchByConcept(concept, top_k) ==
    /\ call.op = "none"
    /\ phase = "idle"
    /\ LET r == retrieve_questions_by_concept(concept, top_k)
       IN  /\ queries' = queries \o r.sent
           /\ result' = r.ret
    /\ call' = [op |-> "concept", arg |-> concept, top_k |-> top_k]
    /\ UNCHANGED <<ranking, codecVars, normVars, ingVars>>

GetById(question_id) ==
    /\ call.op = "none"
    /\ phase = "idle"
    /\ LET r == retrieve_question_by_id(question_id)
       IN  /\ queries' = queries \o r.sent
           /\ result' = r.ret
    /\ call' = [op |-> "by_id", arg |-> question_id, top_k |-> 0]
    /\ UNCHANGED <<ranking, codecVars, normVars, ingVars>>

----------------------------------------------------------------------------
(* Decode scenario: a fragment comes back from the backend truncated, with  *)
(* lines lost or mangled, or was never a block, and is decoded in a batch   *)

\* top_k of search_questions when the caller gives none
DEFAULT_TOP_K == 5

\* Lines lost or mangled per fragment
MaxDamage == 1

SeedDocs ==
    { [id |-> <<"q", "1">>, text |-> <<"t", NL, "u">>, main_concept |-> <<"A", "b">>,
       concepts |-> << <<"A", "b">>, <<"c">> >>],
      [id |-> <<"q", "1">>, text |-> <<>>, main_concept |-> <<"A", "b">>,
       concepts |-> <<>>] }

PLAIN_LINES == <<"t", NL, "u", NL, "v", NL, "w", NL, "x", NL, "y">>

\* A chunk that starts at the separator of the block before it
TAIL_CHUNK == SEP_LINE \o <<NL, NL>> \o build_corpus_text(<<PoolDoc.A>>)

SeedFragments ==
    { build_corpus_text(<<d>>) : d \in SeedDocs } \cup {PLAIN_LINES, TAIL_CHUNK}

\* The batch the damaged fragment "X" comes back in
DAMAGED_BATCH == <<"A", "X", "F">>

RemoveAt(xs, i) == SubSeq(xs, 1, i - 1) \o SubSeq(xs, i + 1, Len(xs))

\* The fragment is cut after its first k characters
Truncate(k) ==
    /\ phase = "fragment"
    /\ k < Len(raw)
    /\ raw' = SubSeq(raw, 1, k)
    /\ UNCHANGED <<doc, parsed, phase, damage, normVars, retrVars, ingVars>>

\* The fragment loses its i-th line
DropLine(i) ==
    /\ phase = "fragment"
    /\ damage < MaxDamage
    /\ i \in 1..Len(Split(raw, NL))
    /\ raw' = Join(RemoveAt(Split(raw, NL), i), <<NL>>)
    /\ damage' = damage + 1
    /\ UNCHANGED <<doc, parsed, phase, normVars, retrVars, ingVars>>

\* The i-th line of the fragment loses its first character
MangleLine(i) ==
    /\ phase = "fragment"
    /\ damage < MaxDamage
    /\ i \in 1..Len(Split(raw, NL))
    /\ Split(raw, NL)[i] # <<>>
    /\ raw' = Join([Split(raw, NL) EXCEPT ![i] = Tail(@)], <<NL>>)
    /\ damage' = damage + 1
    /\ UNCHANGED <<doc, parsed, phase, normVars, retrVars, ingVars>>

\* search_questions(query) over the batch; parsed is _parse_block of the fragment
DecodeBatch(query) ==
    /\ phase = "fragment"
    /\ parsed' = _parse_block(raw)
    /\ LET r == search_questions(query, DEFAULT_TOP_K)
       IN  /\ queries' = queries \o r.sent
           /\ result' = r.ret
    /\ call' = [op |-> "search", arg |-> query, top_k |-> DEFAULT_TOP_K]
    /\ phase' = "decoded"
    /\ UNCHANGED <<doc, raw, damage, ranking, normVars, ingVars>>

----------------------------------------------------------------------------
(* Ingestion: load, normalise *)

DigitChar(d) ==
    CASE d = 0 -> "0" [] d = 1 -> "1" [] d = 2 -> "2" [] d = 3 -> "3"
      [] d = 4 -> "4" [] d = 5 -> "5" [] d = 6 -> "6" [] d = 7 -> "7"
      [] d = 8 -> "8" [] d = 9 -> "9"

\* str(n) for n >= 0
RECURSIVE Decimal(_)
Decimal(n) ==
    IF n < 10 THEN <<DigitChar(n)>>
    ELSE Decimal(n \div 10) \o <<DigitChar(n % 10)>>

\* f"{n:0{width}d}"
RECURSIVE ZeroPad(_, _)
ZeroPad(s, width) == IF Len(s) >= width THEN s ELSE ZeroPad(<<"0">> \o s, width)

\* f"q_{idx:03d}"
ID_WIDTH == 3
q_id_of(idx) == <<"q", "_">> \o ZeroPad(Decimal(idx), ID_WIDTH)

\* A file or a call either returns or raises
Returned(v) == [raised |-> "", ret |-> v]
Raised(e)   == [raised |-> e, ret |-> <<>>]

\* The input file: kind "ok" is a JSON object whose "questions" is a list
NoData == [kind |-> "none", questions |-> <<>>]

\* Mutant of load_raw_metadata: the shape of the JSON is not checked
load_raw_metadata_Unchecked(file) ==
    IF file.kind = "absent" THEN Raised("FileNotFoundError")
    ELSE IF file.kind = "invalid_json" THEN Raised("JSONDecodeError")
    ELSE Returned(file)

load_raw_metadata(file) ==
    IF file.kind = "absent" THEN Raised("FileNotFoundError")
    ELSE IF file.kind = "invalid_json" THEN Raised("JSONDecodeError")
    ELSE IF file.kind \in {"no_key", "not_list"} THEN Raised("ValueError")
    ELSE Returned(file)

\* m.get("concept") is truthy
has_concept(m) == m.has_concept /\ m.concept # <<>>

\* matches[0].get("concept", "UNKNOWN")
first_concept(matches) ==
    IF matches[1].has_concept THEN matches[1].concept ELSE UNKNOWN

normalize_item(idx, it) ==
    LET q_text  == Strip(it.question)
        matches == it.matches
    IN  [id |-> q_id_of(idx),
         text |-> q_text,
         main_concept |-> IF matches # <<>> THEN first_concept(matches) ELSE UNKNOWN,
         concepts |-> IF matches # <<>>
                      THEN MapSeq(FilterSeq(Slice(matches, 0, TOP_CONCEPTS), has_concept),
                                  LAMBDA m : Strip(m.concept))
                      ELSE <<>>]

\* An item that is no JSON object has no .get: AttributeError
normalize_metadata(data) ==
    LET questions == data.questions
    IN  IF \E i \in 1..Len(questions) : questions[i].kind # "dict"
        THEN Raised("AttributeError")
        ELSE Returned([i \in 1..Len(questions) |-> normalize_item(i, questions[i])])

----------------------------------------------------------------------------
(* Normaliser scenario *)

MaxMatches == 4
MaxItems   == 2

Match(c)  == [has_concept |-> TRUE, concept |-> c]
NoConcept == [has_concept |-> FALSE, concept |-> <<>>]

MatchValues ==
    { Match(<<"A", "b">>), Match(<<"c">>), Match(<<" ">>), Match(<<>>), NoConcept }

Item(q, ms) == [kind |-> "dict", question |-> q, matches |-> ms]
PlainItem == Item(<<"u">>, << Match(<<"c">>) >>)
NotADict  == [kind |-> "other", question |-> <<>>, matches |-> <<>>]

NormDatasets ==
    { [kind |-> "ok",
       questions |-> [i \in 1..n |-> PlainItem] \o << Item(<<" ", "t">>, ms) >>] :
        n \in 0..(MaxItems - 1), ms \in SeqsUpTo(MatchValues, MaxMatches) }

\* normalize_metadata(item)
Normalize ==
    /\ phase = "raw_item"
    /\ normalized' = normalize_metadata(item).ret
    /\ phase' = "normalized"
    /\ UNCHANGED <<item, doc, raw, parsed, damage, retrVars, ingVars>>

----------------------------------------------------------------------------
(* Ingestion orchestrator: run_ingestion, one stage per step *)

Runs == {"r1", "r2"}

\* Times the operator rewrites the input file while runs are under way
MaxEdits == 1

StageOrder ==
    <<"load", "normalize", "write_normalized", "write_corpus", "upload", "import">>

GCS_URI == <<"g", "s", ":", "/", "/", "b", "/", "f">>

OtherItem == Item(<<"t">>, << Match(<<"A", "b">>), Match(<<"c">>) >>)

InputValues ==
    { [kind |-> "absent", questions |-> <<>>],
      [kind |-> "invalid_json", questions |-> <<>>],
      [kind |-> "no_key", questions |-> <<>>],
      [kind |-> "not_list", questions |-> <<>>],
      [kind |-> "ok", questions |-> <<PlainItem>>],
      [kind |-> "ok", questions |-> <<OtherItem, PlainItem>>],
      [kind |-> "ok", questions |-> <<PlainItem, NotADict>>] }

\* open(path, "w") then write: the file holds what was written, whatever it held
save_normalized_metadata(file, es) == es
\* Mutant of save_corpus_file: the file is opened for appending
save_corpus_file_Append(file, corpus_text) == file \o corpus_text
save_corpus_file(file, corpus_text) == corpus_text

\* blob.upload_from_filename(LOCAL_CORPUS_PATH): the file as it is now
upload_corpus_to_gcs(file) == [blob |-> file, gcs_uri |-> GCS_URI]

\* rag.import_files(corpus, [gcs_uri])
import_into_rag(r, gcs_uri) == [run |-> r, uris |-> <<gcs_uri>>]

InitIngIdle ==
    /\ inputFile = [kind |-> "absent", questions |-> <<>>]
    /\ edits = 0
    /\ pc = [r \in Runs |-> "off"]
    /\ err = [r \in Runs |-> [stage |-> "", raised |-> ""]]
    /\ loaded = [r \in Runs |-> NoData]
    /\ entries = [r \in Runs |-> <<>>]
    /\ corpusText = [r \in Runs |-> <<>>]
    /\ log = [r \in Runs |-> <<>>]
    /\ normFile = <<>>
    /\ corpusFile = <<>>
    /\ lastWriter = "none"
    /\ bucket = <<>>
    /\ uploaded = [r \in Runs |-> <<>>]
    /\ imports = <<>>

InitIngest ==
    /\ inputFile \in InputValues
    /\ edits = 0
    /\ pc = [r \in Runs |-> "start"]
    /\ err = [r \in Runs |-> [stage |-> "", raised |-> ""]]
    /\ loaded = [r \in Runs |-> NoData]
    /\ entries = [r \in Runs |-> <<>>]
    /\ corpusText = [r \in Runs |-> <<>>]
    /\ log = [r \in Runs |-> <<>>]
    /\ normFile = <<>>
    /\ corpusFile = <<>>
    /\ lastWriter = "none"
    /\ bucket = <<>>
    /\ uploaded = [r \in Runs |-> <<>>]
    /\ imports = <<>>

Fail(r, stage, e) ==
    /\ pc' = [pc EXCEPT ![r] = "failed"]
    /\ err' = [err EXCEPT ![r] = [stage |-> stage, raised |-> e]]

Done(r, stage, next) ==
    /\ pc' = [pc EXCEPT ![r] = next]
    /\ log' = [log EXCEPT ![r] = Append(@, stage)]
    /\ err' = err

\* [STEP 1] raw = load_raw_metadata()
Load(r) ==
    /\ pc[r] = "start"
    /\ LET got == load_raw_metadata(inputFile)
       IN  IF got.raised # ""
           THEN /\ Fail(r, "load", got.raised)
                /\ UNCHANGED <<loaded, log>>
           ELSE /\ Done(r, "load", "loaded")
                /\ loaded' = [loaded EXCEPT ![r] = got.ret]
    /\ UNCHANGED <<inputFile, edits, entries, corpusText, normFile, corpusFile, lastWriter,
                   bucket, uploaded, imports, codecVars, normVars, retrVars>>

\* [STEP 2] entries = normalize_metadata(raw)
NormalizeStage(r) ==
    /\ pc[r] = "loaded"
    /\ LET got == normalize_metadata(loaded[r])
       IN  IF got.raised # ""
           THEN /\ Fail(r, "normalize", got.raised)
                /\ UNCHANGED <<entries, log>>
           ELSE /\ Done(r, "normalize", "normalized")
                /\ entries' = [entries EXCEPT ![r] = got.ret]
    /\ UNCHANGED <<inputFile, edits, loaded, corpusText, normFile, corpusFile, lastWriter,
                   bucket, uploaded, imports, codecVars, normVars, retrVars>>

\* save_normalized_metadata(entries)
SaveNormalized(r) ==
    /\ pc[r] = "normalized"
    /\ Done(r, "write_normalized", "saved")
    /\ normFile' = save_normalized_metadata(normFile, entries[r])
    /\ UNCHANGED <<inputFile, edits, loaded, entries, corpusText, corpusFile, lastWriter,
                   bucket, uploaded, imports, codecVars, normVars, retrVars>>

\* [STEP 3] corpus_text = build_corpus_text(entries); save_corpus_file(corpus_text)
SaveCorpus(r) ==
    /\ pc[r] = "saved"
    /\ Done(r, "write_corpus", "written")
    /\ corpusText' = [corpusText EXCEPT ![r] = build_corpus_text(entries[r])]
    /\ corpusFile' = save_corpus_file(corpusFile, corpusText'[r])
    /\ lastWriter' = r
    /\ UNCHANGED <<inputFile, edits, loaded, entries, normFile, bucket, uploaded, imports,
                   codecVars, normVars, retrVars>>

\* [STEP 4] gcs_uri = upload_corpus_to_gcs()
Upload(r) ==
    /\ pc[r] = "written"
    /\ Done(r, "upload", "uploaded")
    /\ bucket' = upload_corpus_to_gcs(corpusFile).blob
    /\ uploaded' = [uploaded EXCEPT ![r] = upload_corpus_to_gcs(corpusFile).blob]
    /\ UNCHANGED <<inputFile, edits, loaded, entries, corpusText, normFile, corpusFile,
                   lastWriter, imports, codecVars, normVars, retrVars>>

\* [STEP 5] import_into_rag(gcs_uri)
Import(r) ==
    /\ pc[r] = "uploaded"
    /\ Done(r, "import", "done")
    /\ imports' = Append(imports, import_into_rag(r, upload_corpus_to_gcs(corpusFile).gcs_uri))
    /\ UNCHANGED <<inputFile, edits, loaded, entries, corpusText, normFile, corpusFile,
                   lastWriter, bucket, uploaded, codecVars, normVars, retrVars>>

\* A write, the upload or the import request raises (disk, network, service)
IoStage(p) ==
    CASE p = "normalized" -> "write_normalized"
      [] p = "saved"      -> "write_corpus"
      [] p = "written"    -> "upload"
      [] p = "uploaded"   -> "import"

StageRaises(r) ==
    /\ pc[r] \in {"normalized", "saved", "written", "uploaded"}
    /\ Fail(r, IoStage(pc[r]), IF pc[r] \in {"normalized", "saved"}
                               THEN "OSError" ELSE "GoogleAPIError")
    /\ UNCHANGED <<inputFile, edits, loaded, entries, corpusText, log, normFile, corpusFile,
                   lastWriter, bucket, uploaded, imports, codecVars, normVars, retrVars>>

\* The operator replaces input/metadata_input.json between or during runs
EditInput(file) ==
    /\ edits < MaxEdits
    /\ file # inputFile
    /\ \E r \in Runs : pc[r] # "off"
    /\ inputFile' = file
    /\ edits' = edits + 1
    /\ UNCHANGED <<pc, err, loaded, entries, corpusText, log, normFile, corpusFile,
                   lastWriter, bucket, uploaded, imports, codecVars, normVars, retrVars>>

----------------------------------------------------------------------------
(* Specifications *)

\* Corpus codec: every Document of DocValues is rendered and decoded back
InitCodec ==
    /\ doc \in DocValues
    /\ raw = <<>>
    /\ parsed = NoParse
    /\ phase = "doc"
    /\ damage = 0
    /\ InitNormIdle /\ InitRetrIdle /\ InitIngIdle

NextCodec == Encode \/ Decode

SpecCodec == InitCodec /\ [][NextCodec]_vars

\* Decode: every fragment reachable from SeedFragments is decoded
InitDecode ==
    /\ raw \in SeedFragments
    /\ doc = NoDoc
    /\ parsed = NoParse
    /\ phase = "fragment"
    /\ damage = 0
    /\ ranking = DAMAGED_BATCH
    /\ queries = <<>>
    /\ call = NoCall
    /\ result = <<>>
    /\ InitNormIdle /\ InitIngIdle

NextDecode ==
    \/ \E k \in 0..Len(raw) : Truncate(k)
    \/ \E i \in 1..Len(raw) : DropLine(i)
    \/ \E i \in 1..Len(raw) : MangleLine(i)
    \/ \E q \in TextQueries : DecodeBatch(q)

SpecDecode == InitDecode /\ [][NextDecode]_vars

\* Normaliser: every dataset of NormDatasets is normalised
InitNormalize ==
    /\ item \in NormDatasets
    /\ normalized = <<>>
    /\ doc = NoDoc /\ raw = <<>> /\ parsed = NoParse
    /\ phase = "raw_item"
    /\ damage = 0
    /\ InitRetrIdle /\ InitIngIdle

NextNormalize == Normalize

SpecNormalize == InitNormalize /\ [][NextNormalize]_vars

\* Retrieval: the backend ranks fragments, then one tool call is made
InitRetrieval == InitCodecIdle /\ InitNormIdle /\ InitRetrIdle /\ InitIngIdle

NextRetrieval ==
    \/ \E k \in CorpusKeys : BackendRank(k)
    \/ \E q \in TextQueries, top_k \in 0..MaxTopK : Search(q, top_k)
    \/ \E c \in ConceptQueries, top_k \in 0..MaxTopK : SearchByConcept(c, top_k)
    \/ \E q \in IdQueries : GetById(q)

SpecRetrieval == InitRetrieval /\ [][NextRetrieval]_vars

\* Ingestion: the runs of Runs interleave stage by stage
InitIngestion == InitCodecIdle /\ InitNormIdle /\ InitRetrIdle /\ InitIngest

NextIngestion ==
    \/ \E r \in Runs :
          \/ Load(r)
          \/ NormalizeStage(r)
          \/ SaveNormalized(r)
          \/ SaveCorpus(r)
          \/ Upload(r)
          \/ Import(r)
          \/ StageRaises(r)
    \/ \E file \in InputValues : EditInput(file)

SpecIngestion == InitIngestion /\ [][NextIngestion]_vars

----------------------------------------------------------------------------
(* Properties of the corpus codec *)

Lines(s) == Split(s, "\n")

\* No line of the field is the separator, and the field has no surrounding whitespace
CleanField(s) ==
    /\ Strip(s) = s
    /\ \A i \in 1..Len(Lines(s)) : Lines(s)[i] # SEP_LINE

CleanDocument(d) ==
    /\ CleanField(d.id)
    /\ CleanField(d.text)
    /\ CleanField(d.main_concept)
    /\ \A i \in 1..Len(d.concepts) : CleanField(d.concepts[i])

\* C1: decoding the block rendered for a Document whose fields hold no "---"
\* line and no surrounding whitespace (its text may be empty, its concepts
\* list may be empty) gives back its id, text, main_concept and concepts.
C1_RoundTrip ==
    (phase = "decoded" /\ CleanDocument(doc)) =>
        /\ parsed.id = doc.id
        /\ parsed.text = doc.text
        /\ parsed.main_concept = doc.main_concept
        /\ parsed.concepts = doc.concepts

HeaderPrefix(label) == <<"[">> \o label \o <<":">>

\* A line of the shape [LABEL: ...]
WellFormedHeader(line, label) ==
    /\ StartsWith(line, <<"[">> \o label \o <<":", " ">>)
    /\ line[Len(line)] = "]"

\* What the hit of a corpus fragment must be, field by field
KnownDoc(k) ==
    IF k = "H"
    THEN [id |-> UNKNOWN_ID, text |-> PLAIN_TEXT, main_concept |-> UNKNOWN,
          concepts |-> <<>>]
    ELSE PoolDoc[k]

BatchDecodedInOrder ==
    /\ Len(result) = Len(ranking)
    /\ \A i \in 1..Len(ranking) :
          result[i] = QuestionHit(IF ranking[i] = "X" THEN parsed
                                  ELSE KnownDoc(ranking[i]), ScoreAt(i))

\* C5 (as amended): every fragment decodes to a record; id is UNKNOWN_ID when
\* line 0 is absent or does not start with "[ID:", main_concept is UNKNOWN when
\* line 1 is absent or does not start with "[MAIN_CONCEPT:", concepts is empty
\* when line 2 is absent or does not start with "[CONCEPTS:"; the batch holds
\* one hit per fragment, in backend order, whatever the damaged fragment is.
C5_DecodeDefaults ==
    phase = "decoded" =>
        LET lines == SplitLines(raw)
        IN  /\ DOMAIN parsed = {"id", "text", "main_concept", "concepts"}
            /\ (Len(lines) < 1 \/ ~StartsWith(lines[1], HeaderPrefix(L_ID)))
                  => parsed.id = UNKNOWN_ID
            /\ (Len(lines) < 2 \/ ~StartsWith(lines[2], HeaderPrefix(L_MAIN_CONCEPT)))
                  => parsed.main_concept = UNKNOWN
            /\ (Len(lines) < 3 \/ ~StartsWith(lines[3], HeaderPrefix(L_CONCEPTS)))
                  => parsed.concepts = <<>>
            /\ BatchDecodedInOrder

\* C5 witness: a fragment whose first line is no ID header was decoded, in a
\* batch, to the default id
C5_Witness ==
    /\ phase = "decoded"
    /\ Len(SplitLines(raw)) >= 3
    /\ ~StartsWith(SplitLines(raw)[1], HeaderPrefix(L_ID))
    /\ parsed.id = UNKNOWN_ID
    /\ parsed.main_concept = UNKNOWN
    /\ Len(result) = 3

\* C5 as stated: the defaults apply whenever the line is absent or is not a
\* well-formed [LABEL: ...] line
C5_DefaultsUnlessWellFormed ==
    phase = "decoded" =>
        LET lines == SplitLines(raw)
        IN  /\ (Len(lines) < 1 \/ ~WellFormedHeader(lines[1], L_ID))
                  => parsed.id = UNKNOWN_ID
            /\ (Len(lines) < 2 \/ ~WellFormedHeader(lines[2], L_MAIN_CONCEPT))
                  => parsed.main_concept = UNKNOWN
            /\ (Len(lines) < 3 \/ ~WellFormedHeader(lines[3], L_CONCEPTS))
                  => parsed.concepts = <<>>
            /\ BatchDecodedInOrder

\* Index (0-based) of the first "---" line at or after line 4, or the number of lines
NextSeparator(lines) ==
    IF \E i \in 5..Len(lines) : lines[i] = SEP_LINE
    THEN (CHOOSE i \in 5..Len(lines) :
             /\ lines[i] = SEP_LINE
             /\ \A j \in 5..(i - 1) : lines[j] # SEP_LINE) - 1
    ELSE Len(lines)

\* C9: for an input with at least one line the decoded text is, up to
\* surrounding whitespace, lines 4 up to the next "---" line (or the end), so
\* no header line is part of it.
C9_TextIsBody ==
    (phase = "decoded" /\ Len(SplitLines(raw)) >= 1) =>
        parsed.text =
            Strip(Join(Slice(SplitLines(raw), 4, NextSeparator(SplitLines(raw))), <<NL>>))

----------------------------------------------------------------------------
(* Property of the normaliser *)

NamedMatches(ms) ==
    SelectSeq(SubSeq(ms, 1, IF Len(ms) < TOP_CONCEPTS THEN Len(ms) ELSE TOP_CONCEPTS),
              LAMBDA m : m.has_concept /\ m.concept # <<>>)

\* C6: every normalised Document has at most 3 concepts, each non-empty after
\* trimming, taken in order from the first 3 matches with empty names skipped;
\* with no match main_concept is UNKNOWN and concepts is empty, otherwise
\* main_concept is the concept of the first match.
C6_NormalizedConcepts ==
    phase = "normalized" =>
        \A i \in 1..Len(normalized) :
            LET d  == normalized[i]
                ms == item.questions[i].matches
            IN  /\ Len(d.concepts) <= TOP_CONCEPTS
                /\ \A j \in 1..Len(d.concepts) : Strip(d.concepts[j]) # <<>>
                /\ Len(d.concepts) = Len(NamedMatches(ms))
                /\ \A j \in 1..Len(d.concepts) :
                      d.concepts[j] = Strip(NamedMatches(ms)[j].concept)
                /\ ms = <<>> => (d.main_concept = UNKNOWN /\ d.concepts = <<>>)
                /\ (ms # <<>> /\ ms[1].has_concept) => d.main_concept = ms[1].concept

----------------------------------------------------------------------------
(* Properties of the retrieval refinement layer *)

Min(a, b) == IF a < b THEN a ELSE b

\* The hits the backend's first `limit` fragments stand for, in backend order
BackendHits(limit) ==
    [i \in 1..Min(limit, Len(ranking)) |-> QuestionHit(KnownDoc(ranking[i]), ScoreAt(i))]

\* The hit is tagged with the concept: its main_concept or one of its concepts
\* equals the trimmed concept, case-insensitively
Tagged(h, concept) ==
    \/ Lower(h.main_concept) = Lower(Strip(concept))
    \/ \E j \in 1..Len(h.concepts) : Lower(h.concepts[j]) = Lower(Strip(concept))

TaggedAt(hits, concept) == { i \in 1..Len(hits) : Tagged(hits[i], concept) }

\* result is the first top_k of the hits at the positions of `at`, in order
IsFirstOf(res, hits, at, top_k) ==
    /\ Len(res) = Min(top_k, Cardinality(at))
    /\ \A i \in at :
          LET n == Cardinality({ j \in at : j <= i })
          IN  n <= top_k => res[n] = hits[i]

\* C2: a concept search issues one backend query with limit top_k*3, and when
\* some returned hit is tagged with the concept the result is exactly the
\* tagged hits, in backend order, cut to the first top_k.
C2_ConceptFilter ==
    call.op = "concept" =>
        LET hits == BackendHits(call.top_k * 3)
            at   == TaggedAt(hits, call.arg)
        IN  /\ queries = << [text |-> call.arg, limit |-> call.top_k * 3] >>
            /\ at # {} =>
                  /\ IsFirstOf(result, hits, at, call.top_k)
                  /\ \A n \in 1..Len(result) : Tagged(result[n], call.arg)

\* C2 witness: top_k = 3, hits no. 2 and no. 5 of the 9 fetched are the tagged
\* ones, and the result is those two
C2_Witness ==
    /\ call.op = "concept"
    /\ call.top_k = 3
    /\ Len(BackendHits(9)) = 9
    /\ TaggedAt(BackendHits(9), call.arg) = {2, 5}
    /\ Len(result) = 2

\* C3: when no fetched hit is tagged with the concept the result is the first
\* top_k fetched hits; the result never has more than top_k entries, and for
\* top_k >= 1 it is empty only if the backend returned nothing.
C3_ConceptFallback ==
    call.op = "concept" =>
        LET hits == BackendHits(call.top_k * 3)
        IN  /\ TaggedAt(hits, call.arg) = {} =>
                  IsFirstOf(result, hits, 1..Len(hits), call.top_k)
            /\ Len(result) <= call.top_k
            /\ (call.top_k >= 1 /\ result = <<>>) => ranking = <<>>

\* C3 witness: 9 hits fetched for top_k = 3, none tagged, 3 returned
C3_Witness ==
    /\ call.op = "concept"
    /\ call.top_k = 3
    /\ Len(BackendHits(9)) = 9
    /\ TaggedAt(BackendHits(9), call.arg) = {}
    /\ Len(result) = 3

SameId(h, question_id) == Lower(Strip(h.id)) = Lower(Strip(question_id))

\* C4: an id lookup issues one backend query with limit 10 and returns the
\* first of those hits whose id equals the requested id, both trimmed and
\* case-folded, or None when none of them does.
C4_IdLookup ==
    call.op = "by_id" =>
        LET hits == BackendHits(10)
            at   == { i \in 1..Len(hits) : SameId(hits[i], call.arg) }
        IN  /\ queries = << [text |-> call.arg, limit |-> 10] >>
            /\ at = {} => result = None
            /\ at # {} =>
                  /\ ~result.none
                  /\ \E i \in at : /\ result.hit = hits[i]
                                   /\ \A j \in at : i <= j

\* C4 witness: the lookup returned None although the fragment ranked 11th
\* carries the id
C4_Witness ==
    /\ call.op = "by_id"
    /\ result.none
    /\ Len(ranking) >= 11
    /\ SameId(KnownDoc(ranking[11]), call.arg)

\* C10: the Document an id lookup returns was decoded from a fragment whose
\* first line is an [ID: ...] header carrying the requested id; a fragment
\* with no ID header is never the match.
C10_MatchHasIdHeader ==
    (call.op = "by_id" /\ ~result.none) =>
        \E i \in 1..Len(ranking) :
            LET lines == SplitLines(FragmentText(ranking[i]))
            IN  /\ result.hit.score = ScoreAt(i)
                /\ Len(lines) >= 1
                /\ StartsWith(lines[1], HeaderPrefix(L_ID))
                /\ SameId([id |-> SubSeq(lines[1], Len(HeaderPrefix(L_ID)) + 1,
                                         Len(lines[1]) - 1)],
                          call.arg)

----------------------------------------------------------------------------
(* Properties of the ingestion orchestrator *)

Did(r, stage) == stage \in Range(log[r])

StageIndex(stage) == CHOOSE i \in 1..Len(StageOrder) : StageOrder[i] = stage

ImportsOf(r) == { i \in 1..Len(imports) : imports[i].run = r }

\* C7: in every run the stage effects happen in the order load, normalize,
\* write normalized artifact, write corpus file, upload, import, and none
\* happens after the stage that raised; a run whose load raised (file absent,
\* or "questions" missing or not a list) writes no artifact and requests
\* neither upload nor import; import is requested only after that run's upload.
C7_OrderedFailFast ==
    /\ \A r \in Runs :
          /\ Len(log[r]) <= Len(StageOrder)
          /\ log[r] = SubSeq(StageOrder, 1, Len(log[r]))
          /\ pc[r] = "failed" => Len(log[r]) = StageIndex(err[r].stage) - 1
          /\ Did(r, "load") => loaded[r].kind = "ok"
          /\ err[r].stage = "load" =>
                /\ err[r].raised \in {"FileNotFoundError", "ValueError", "JSONDecodeError"}
                /\ log[r] = <<>>
                /\ entries[r] = <<>> /\ corpusText[r] = <<>> /\ uploaded[r] = <<>>
                /\ lastWriter # r
                /\ ImportsOf(r) = {}
          /\ Did(r, "write_corpus") <=> corpusText[r] # <<>>
          /\ Did(r, "upload") <=> uploaded[r] # <<>>
          /\ Cardinality(ImportsOf(r)) = IF Did(r, "import") THEN 1 ELSE 0
          /\ ImportsOf(r) # {} => Did(r, "upload")
    /\ (\A r \in Runs : ~Did(r, "write_normalized")) => normFile = <<>>
    /\ (\A r \in Runs : ~Did(r, "write_corpus")) => corpusFile = <<>>
    /\ (\A r \in Runs : ~Did(r, "upload")) => bucket = <<>>

\* C7 witness: one run's load raised on a missing "questions" list and left
\* nothing behind, another run wrote both artifacts and its upload raised, and
\* no import was requested
C7_Witness ==
    \E r, q \in Runs :
        /\ pc[r] = "failed" /\ err[r] = [stage |-> "load", raised |-> "ValueError"]
        /\ pc[q] = "failed" /\ err[q].stage = "upload"
        /\ log[q] = SubSeq(StageOrder, 1, 4)
        /\ normFile # <<>> /\ corpusFile # <<>> /\ bucket = <<>>
        /\ imports = <<>>

\* C8: the local corpus file holds what the run that wrote it last rendered;
\* an upload sends the file as it is, whichever run rendered it; a run that
\* is the only one to have started uploads the blob rendered from its own
\* entries.
C8_LastWriterWins ==
    /\ lastWriter # "none" => corpusFile = corpusText[lastWriter]
    /\ \A r \in Runs :
          /\ Did(r, "upload") =>
                \E q \in Runs : Did(q, "write_corpus") /\ uploaded[r] = corpusText[q]
          /\ (Did(r, "upload") /\ \A q \in Runs \ {r} : pc[q] = "start") =>
                uploaded[r] = build_corpus_text(entries[r])

\* C8 witness: a run has uploaded the blob the other run rendered, which is
\* not the blob of its own entries, and nothing stopped either run
C8_Witness ==
    \E r, q \in Runs :
        /\ r # q
        /\ pc[r] = "done" /\ pc[q] \in {"written", "uploaded", "done"}
        /\ uploaded[r] = corpusText[q]
        /\ uploaded[r] # build_corpus_text(entries[r])
        /\ corpusFile = corpusText[q]

====
